---- MODULE Spec2Model ----
(***************************************************************************)
(* Model of the cbr-tram server (server/src/index.js): loadFeed,            *)
(* POST /api/refresh, getNextArrivalsForStop and loadStops, run as         *)
(* concurrent request handlers of one single-threaded event loop.  Every   *)
(* action is one synchronous segment of a handler, from one await to the   *)
(* next; a handler that returns hands its response to resp.                *)
(*                                                                         *)
(* Six specifications share the definitions:                               *)
(*   Spec       the feed cache and its callers,                            *)
(*   SpecStops  the stop list cascade (loadStops) on top of the feed cache,*)
(*   SpecStopsTtl  the same cascade with the clock ticks of the feed TTL,  *)
(*   SpecPure   the arrival ranking and the static stop table, applied as  *)
(*              functions to feeds and tables drawn from bounded sets,     *)
(*   SpecRaw    the feed cache with GET /api/feed.pb,                      *)
(*   SpecWeb    the web client's stop selection and departure requests.    *)
(***************************************************************************)
EXTENDS Integers, Sequences, FiniteSets, TLC

(***************************************************************************)
(* Bounds of the model.                                                    *)
(***************************************************************************)
\* number of handlers that can be suspended in loadFeed() at the same time
NCalls == 2
\* cap on the number of upstream fetches issued in one behaviour
MaxFetches == 2
\* cap on the number of clock advances in one behaviour
MaxTicks == 2
\* milliseconds the clock advances per tick (half of the feed TTL)
TickMs == 7500
\* Date.now() of the first state, in milliseconds
StartClock == 20000
\* cap on the number of whole days the clock advances in one behaviour
MaxDays == 1
\* largest number of entities of a feed handed to the arrival ranking
MaxEntities == 3
\* largest number of data rows of a static stop table handed to the parser
MaxRows == 2
\* cap on the departure requests of the web client in flight for one stop
MaxPending == 2

(***************************************************************************)
(* Program constants.                                                      *)
(***************************************************************************)
\* const FEED_TTL_MS = Number(process.env.FEED_TTL_MS || 15000)
FEED_TTL_MS == 15000

\* const STOPS_TTL_MS = 24 * 60 * 60 * 1000
STOPS_TTL_MS == 86400000

Calls == 1..NCalls

(***************************************************************************)
(* Upstream payloads.  A payload is the byte content of one HTTP response; *)
(* FeedMessage.decode either throws on it or yields the entity list below. *)
(* An entity carries a tripUpdate (hasTU) with a directionId (0, 1, or     *)
(* NoDir when the trip has none) and stopTimeUpdates, or a vehicle.        *)
(* A stopTimeUpdate with hasArrival = FALSE has no arrival time.           *)
(***************************************************************************)
NoDir == -1
BadPayload == 0
Payloads == {0, 1, 2}

Stu(sid, hasArr, t) == [stopId |-> sid, hasArrival |-> hasArr, time |-> t]

TripEntity(dir, stus) == [hasTU |-> TRUE, dir |-> dir, stus |-> stus]

VehicleEntity == [hasTU |-> FALSE, dir |-> NoDir, stus |-> <<>>]

\* the entity list FeedMessage.decode yields for a well-formed payload
FeedEntities(bytes) ==
    CASE bytes = 1 -> << TripEntity(0, << Stu("S1", TRUE, 40), Stu("X9", TRUE, 10) >>),
                         TripEntity(1, << Stu("s1", TRUE, 27), Stu("S1", FALSE, 0) >>),
                         VehicleEntity >>
      [] bytes = 2 -> << VehicleEntity >>
      [] OTHER     -> << >>

\* rt.FeedMessage.decode(bytes) throws on a structurally invalid payload
DecodeThrows(bytes) == bytes = BadPayload

\* the stop id the clients ask departures for (it matches "S1" of the feed up to case)
StopIds == {"s1"}

(***************************************************************************)
(* Values.  A decoded message and a raw byte array are objects: each is    *)
(* tagged with the number of the fetch that created it (fid), so that two  *)
(* decodings of equal payloads are different objects.  fid = 0 is null.    *)
(***************************************************************************)
NullMsg == [fid |-> 0, entity |-> << >>]

NullRaw == [fid |-> 0, bytes |-> BadPayload]

\* tmp/lightrail.pb does not exist
NoFile == -1

NewRaw(fid, bytes) == [fid |-> fid, bytes |-> bytes]

Decode(raw) == [fid |-> raw.fid, entity |-> FeedEntities(raw.bytes)]

(***************************************************************************)
(* getNextArrivalsForStop, the part after loadFeed() has returned a feed.  *)
(***************************************************************************)
\* String(x).toUpperCase() on the stop ids of the model
ToUpperCase(s) ==
    CASE s = "s1" -> "S1"
      [] s = "x9" -> "X9"
      [] OTHER    -> s

\* directionId of an Arrival built from the 'unknown' bucket
Undefined == -2

\* (feed.entity || []).some(e => e.tripUpdate)
HasTripUpdates(entity) == \E i \in DOMAIN entity : entity[i].hasTU

\* bestByDir.get(dir): 0 (falsy) when the key is absent
MapGet(m, k) ==
    IF \E i \in DOMAIN m : m[i][1] = k
    THEN LET i == CHOOSE j \in DOMAIN m : m[j][1] = k IN m[i][2]
    ELSE 0

\* bestByDir.set(dir, t): a Map keeps the insertion order of its keys
MapSet(m, k, v) ==
    IF \E i \in DOMAIN m : m[i][1] = k
    THEN [i \in DOMAIN m |-> IF m[i][1] = k THEN << k, v >> ELSE m[i]]
    ELSE Append(m, << k, v >>)

\* mutant: an arrival due at this very second is skipped too
SkipsDueNow(stu, now) == ~stu.hasArrival \/ stu.time = 0 \/ stu.time <= now

\* const t = stu.arrival?.time ...; if (!t || t < now) continue
Skips(stu, now) == ~stu.hasArrival \/ stu.time = 0 \/ stu.time < now

\* mutant: the latest arrival of a direction is kept
Later(t, prev) == prev = 0 \/ t > prev

\* if (!prev || t < prev)
Earlier(t, prev) == prev = 0 \/ t < prev

\* the body of the inner loop over stopTimeUpdate, for one entry
VisitStu(best, dir, stu, stopId, now) ==
    IF stu.stopId = "" THEN best
    ELSE IF ToUpperCase(stu.stopId) # ToUpperCase(stopId) THEN best
    ELSE IF Skips(stu, now) THEN best
    ELSE LET prev == MapGet(best, dir)
         IN  IF Earlier(stu.time, prev) THEN MapSet(best, dir, stu.time) ELSE best

RECURSIVE VisitStus(_, _, _, _, _)
VisitStus(best, dir, stus, stopId, now) ==
    IF stus = << >> THEN best
    ELSE VisitStus(VisitStu(best, dir, Head(stus), stopId, now), dir, Tail(stus), stopId, now)

RECURSIVE BestByDir(_, _, _, _)
BestByDir(best, entity, stopId, now) ==
    IF entity = << >> THEN best
    ELSE LET e == Head(entity)
             b == IF e.hasTU THEN VisitStus(best, e.dir, e.stus, stopId, now) ELSE best
         IN  BestByDir(b, Tail(entity), stopId, now)

\* mutant: secondsAway is the arrival time itself
ToArrivalAbsolute(entry, now) ==
    [ epochSeconds |-> entry[2],
      secondsAway  |-> entry[2],
      source       |-> "realtime",
      directionId  |-> IF entry[1] = NoDir THEN Undefined ELSE entry[1] ]

\* .map(([directionId, epochSeconds]) => ({...}))
ToArrival(entry, now) ==
    [ epochSeconds |-> entry[2],
      secondsAway  |-> entry[2] - now,
      source       |-> "realtime",
      directionId  |-> IF entry[1] = NoDir THEN Undefined ELSE entry[1] ]

\* insertion of x into a list sorted by secondsAway, after the entries equal to it
RECURSIVE InsertSorted(_, _)
InsertSorted(x, list) ==
    IF list = << >> THEN << x >>
    ELSE IF x.secondsAway < Head(list).secondsAway THEN << x >> \o list
    ELSE << Head(list) >> \o InsertSorted(x, Tail(list))

\* .sort((a,b) => a.secondsAway - b.secondsAway): a stable sort
RECURSIVE SortBySecondsAway(_)
SortBySecondsAway(list) ==
    IF list = << >> THEN << >>
    ELSE LET n == Len(list)
         IN  InsertSorted(list[n], SortBySecondsAway(SubSeq(list, 1, n - 1)))

\* mutant: the list is not truncated
NoSlice(list) == list

\* .slice(0, 2)
Slice2(list) == SubSeq(list, 1, IF Len(list) < 2 THEN Len(list) ELSE 2)

\* mutant: without TripUpdates an estimated schedule is returned (a train every
\* 6 minutes, as getFallbackNextArrivals would compute)
EstimatedArrivals ==
    << [ epochSeconds |-> 360, secondsAway |-> 340, source |-> "fallback",
         directionId |-> 0 ] >>

\* if (!hasTripUpdates) { logger.warn(...); return []; }
NoTripUpdates == << >>

\* the result of getNextArrivalsForStop(stopId) on a decoded feed, now in seconds
NextArrivals(entity, stopId, now) ==
    IF ~HasTripUpdates(entity) THEN NoTripUpdates
    ELSE LET best   == BestByDir(<< >>, entity, stopId, now)
             mapped == [i \in DOMAIN best |-> ToArrival(best[i], now)]
             kept   == SelectSeq(mapped, LAMBDA x : x.secondsAway >= 0)
         IN  Slice2(SortBySecondsAway(kept))

(***************************************************************************)
(* loadStops, tier 1: the static table cbr-lightrail-concors/stops.txt.    *)
(* A table is the file as fs.readFile and the line splitting see it: it    *)
(* does not exist (readFile rejects), or it has a header line ("" when the *)
(* file has no non-empty line) and data rows; a row is the list of fields  *)
(* parseCsvLine yields for its line.                                       *)
(***************************************************************************)
NoTable == [exists |-> FALSE, header |-> "", rows |-> << >>]

Table(header, rows) == [exists |-> TRUE, header |-> header, rows |-> rows]

\* header.toLowerCase() on the header lines of the model
ToLowerCase(s) ==
    CASE s = "STOP_ID,STOP_NAME" -> "stop_id,stop_name"
      [] OTHER -> s

\* .startsWith('stop_id') on the lower-cased header lines of the model
StartsWithStopId(s) == s \in {"stop_id", "stop_id,stop_name"}

\* s.replace(/^"|"$/g, '') on the fields of the model
StripQuotes(s) ==
    CASE s = "\"0\"" -> "0"
      [] s = "\"s1" -> "s1"
      [] OTHER -> s

\* .filter(r => String(stripQuotes(r[5] ?? '0')) === '0'), on rows of 6 fields or more
PlatformRow(r) == StripQuotes(r[6]) = "0"

\* mutant: the stop id is upper-cased
ToStopUpper(r) == [id |-> ToUpperCase(StripQuotes(r[1])), name |-> StripQuotes(r[2])]

\* .map(r => ({ id: stripQuotes(r[0]), name: stripQuotes(r[1]) }))
ToStop(r) == [id |-> StripQuotes(r[1]), name |-> StripQuotes(r[2])]

\* the list `mapped` of loadStops; empty when the try block does not build it
StaticStops(t) ==
    IF ~t.exists THEN << >>
    ELSE IF t.header = "" THEN << >>
    ELSE IF ~StartsWithStopId(ToLowerCase(t.header)) THEN << >>
    ELSE LET rows == SelectSeq(t.rows, LAMBDA r : Len(r) >= 6)
             kept == SelectSeq(rows, PlatformRow)
         IN  [i \in DOMAIN kept |-> ToStop(kept[i])]

(***************************************************************************)
(* loadStops, tier 2 and 3: stop ids seen in the feed, and the fallback.   *)
(***************************************************************************)
\* mutant: the ids are sorted without regard to case
CaseBlindOrder == << "s1", "S1", "X9" >>

\* the stop ids of the model in the order Array.prototype.sort() gives them
\* (UTF-16 code units: upper case before lower case)
CodeUnitOrder == << "S1", "X9", "s1" >>

\* the Set built from the stopTimeUpdates of the tripUpdate entities
FeedStopIds(entity) ==
    UNION { { entity[i].stus[j].stopId : j \in DOMAIN entity[i].stus } :
            i \in {k \in DOMAIN entity : entity[k].hasTU} } \ {""}

\* Array.from(set).sort().map(id => ({ id, name: id }))
FromFeed(entity) ==
    LET sorted == SelectSeq(CodeUnitOrder, LAMBDA x : x \in FeedStopIds(entity))
    IN  [i \in DOMAIN sorted |-> [id |-> sorted[i], name |-> sorted[i]]]

\* mutant: the fallback list is empty
NoFallback == << >>

\* const fallbackStops
fallbackStops ==
    << [id |-> "GUNGAHLIN_PLACE", name |-> "Gungahlin Place"],
       [id |-> "MANNING_CLARK", name |-> "Manning Clark North"],
       [id |-> "KAVANAGH", name |-> "Kavanagh Street"],
       [id |-> "WIMMERA", name |-> "Well Station Drive"],
       [id |-> "SANDY", name |-> "Sandon Street"],
       [id |-> "EPIC", name |-> "EPIC and Racecourse"],
       [id |-> "SWINDEN", name |-> "Swinden Street"],
       [id |-> "DICKSON_INTERCHANGE", name |-> "Dickson Interchange"],
       [id |-> "MACARTHUR", name |-> "Macarthur Avenue"],
       [id |-> "IPIMA", name |-> "Ipima Street"],
       [id |-> "ELDER", name |-> "Elouera Street"],
       [id |-> "ALINGA", name |-> "Alinga Street"] >>

\* let stopsCache = null
NoStops == << >>

VARIABLES
    urlConfigured,  \* process.env.GTFS_RT_TRIP_UPDATES_URL is set
    clock,          \* Date.now(), milliseconds
    ticks,          \* number of clock advances so far
    feedCache,      \* let feedCache: decoded FeedMessage or null
    feedCacheTs,    \* let feedCacheTs
    feedCacheRaw,   \* let feedCacheRaw: raw bytes or null
    diskRaw,        \* bytes of the file tmp/lightrail.pb, or NoFile
    fetchCount,     \* number of upstream fetch() calls issued so far
    req,            \* req[c]: the handler suspended in slot c
    resp,           \* the latest response: which handler returned, and what
    lastInstall,    \* history: the snapshot installed by the latest successful refresh
    stopsCache,     \* let stopsCache: the cached stop list or null
    stopsCacheTs,   \* let stopsCacheTs
    stopsCachedAt,  \* history: Date.now() when stopsCache was last assigned
    table,          \* the file cbr-lightrail-concors/stops.txt
    rank,           \* SpecPure: an input of the arrival ranking, and its result
    parsed,         \* SpecPure: a static table, and the stop list read from it
    web             \* SpecWeb: the state of the web client (App.tsx)

\* what the feed handlers never write
stopsVars == << stopsCache, stopsCacheTs, stopsCachedAt, table >>

\* what no server handler writes
pureVars == << rank, parsed, web >>

vars == << urlConfigured, clock, ticks, feedCache, feedCacheTs, feedCacheRaw,
           diskRaw, fetchCount, req, resp, lastInstall, stopsVars, pureVars >>

(***************************************************************************)
(* Request handlers.  op is the operation a handler runs:                  *)
(*   "getFeed"  a direct call of loadFeed(), its outcome surfaced,         *)
(*   "refresh"  POST /api/refresh (forceRefresh),                          *)
(*   "arrivals" getNextArrivalsForStop(stopId) (nextArrivals),             *)
(*   "stops"    loadStops() (resolveStops).                                *)
(* A handler whose loadFeed() call returns in its first segment responds   *)
(* at once.  Otherwise it occupies a slot c; req[c].pc is the await it is  *)
(* suspended at: "reading" (loadStops: await fs.readFile), "fetching"      *)
(* (await fetch / res.arrayBuffer) or "writing" (await fs.mkdir /          *)
(* fs.writeFile).  now is the clock reading loadFeed() took on entry,      *)
(* stopsNow the one loadStops() took on entry, fid the number of the       *)
(* handler's fetch (0: it did not fetch).                                  *)
(* overlap and fresh are history fields: the fetches in flight, and the    *)
(* freshness of the snapshot, when the handler started.                    *)
(***************************************************************************)
NoOut == [kind |-> "none", msg |-> NullMsg, ts |-> 0, list |-> << >>]

IdleReq ==
    [ op |-> "idle", pc |-> "idle", now |-> 0, fid |-> 0, buf |-> BadPayload,
      stopId |-> "", overlap |-> {}, fresh |-> FALSE, stopsNow |-> 0 ]

NoResp ==
    [ op |-> "none", stopId |-> "", now |-> 0, fid |-> 0, overlap |-> {},
      fresh |-> FALSE, out |-> NoOut ]

NoInstall == [msg |-> NullMsg, ts |-> 0]

\* the stops the web client offers in its select box
WebStops == {"S1", "X9"}

\* the web client before GET /api/stops has answered: no stop selected
\* (useState('')), no arrivals displayed (useState([])), no request in flight.
\* targetsFor is the stop whose arrivals `targets` holds, pending[s] the number
\* of /api/departures requests for s in flight, error the `error` state;
\* answered is a history field: a response for the selected stop has arrived
\* since it was selected.
NoWeb ==
    [ selectedStop |-> "", targetsFor |-> "", pending |-> [s \in WebStops |-> 0],
      error |-> FALSE, answered |-> FALSE ]

\* nothing to rank, nothing to read
NoRank == [feed |-> << >>, stopId |-> "", nowMs |-> 0, done |-> TRUE, out |-> << >>]

NoParsed == [table |-> NoTable, done |-> TRUE, out |-> << >>]

\* the server has just started
ColdStart ==
    /\ clock = StartClock
    /\ ticks = 0
    /\ feedCache = NullMsg
    /\ feedCacheTs = 0
    /\ feedCacheRaw = NullRaw
    /\ diskRaw = NoFile
    /\ fetchCount = 0
    /\ req = [c \in Calls |-> IdleReq]
    /\ resp = NoResp
    /\ lastInstall = NoInstall
    /\ stopsCache = NoStops
    /\ stopsCacheTs = 0
    /\ stopsCachedAt = 0

Init ==
    /\ urlConfigured \in BOOLEAN
    /\ ColdStart
    /\ web = NoWeb
    /\ table = NoTable
    /\ rank = NoRank
    /\ parsed = NoParsed

\* time passes between two handler segments
Tick ==
    /\ ticks < MaxTicks
    /\ ticks' = ticks + 1
    /\ clock' = clock + TickMs
    /\ UNCHANGED << urlConfigured, feedCache, feedCacheTs, feedCacheRaw, diskRaw,
                    fetchCount, req, resp, lastInstall, stopsVars, pureVars >>

\* mutant: the url check is skipped
UrlCheckSkipped == FALSE

\* if (!url) return null
NotConfigured == ~urlConfigured

\* mutant: a cached message is served whatever its age
CacheNeverExpires(cache, ts, now) == cache # NullMsg

\* mutant: the TTL comparison is inverted
CacheFreshInverted(cache, ts, now) == cache # NullMsg /\ now - ts > FEED_TTL_MS

\* if (feedCache && now - feedCacheTs < FEED_TTL_MS) return feedCache
CacheFresh(cache, ts, now) == cache # NullMsg /\ now - ts < FEED_TTL_MS

\* the first segment of loadFeed() on the cache (cache, ts) at clock reading now:
\* "null" (not configured), "hit" (return feedCache) or "miss" (fetch)
LoadFeedEntry(cache, ts, now) ==
    IF NotConfigured THEN "null"
    ELSE IF CacheFresh(cache, ts, now) THEN "hit"
    ELSE "miss"

\* the outcomes of loadFeed(): null, the decoded message, or a thrown error
RetNull == [kind |-> "null", msg |-> NullMsg]

RetMsg(m) == [kind |-> "msg", msg |-> m]

\* mutant: a failed refresh serves the cached message instead of throwing
RetStale == [kind |-> "msg", msg |-> feedCache]

RetThrow == [kind |-> "error", msg |-> NullMsg]

\* mutant: tier 2 is skipped
SkipFeedTier(r) == fallbackStops

\* the list loadStops() caches after its loadFeed() call had outcome r: the stop
\* ids of the feed (tier 2), and the fallback list when there are none or when
\* loadFeed() returned null or threw (tier 3)
StopsAfterFeed(r) ==
    IF r.kind = "msg" /\ FromFeed(r.msg.entity) # << >>
    THEN FromFeed(r.msg.entity)
    ELSE fallbackStops

\* mutant: the catch block of getNextArrivalsForStop rethrows
ArrivalsRethrown == [kind |-> "error", msg |-> NullMsg, ts |-> 0, list |-> << >>]

\* catch (e) { logger.error(...); return []; }
ArrivalsCaught == [kind |-> "list", msg |-> NullMsg, ts |-> 0, list |-> << >>]

\* what handler op makes of the outcome r of its loadFeed() call; ts is feedCacheTs
\* and now is Date.now() when loadFeed() returns
Respond(op, stopId, r, ts, now) ==
    CASE op = "getFeed" ->
           [kind |-> r.kind, msg |-> r.msg, ts |-> IF r.kind = "msg" THEN ts ELSE 0,
            list |-> << >>]
      [] op = "refresh" ->
           IF r.kind = "error"
           THEN [kind |-> "error", msg |-> NullMsg, ts |-> 0, list |-> << >>]
           ELSE [kind |-> "ok", msg |-> NullMsg, ts |-> ts, list |-> << >>]
      [] op = "arrivals" ->
           IF r.kind = "error" THEN ArrivalsCaught
           ELSE [kind |-> "list", msg |-> NullMsg, ts |-> 0,
                 list |-> IF r.kind = "msg"
                          THEN NextArrivals(r.msg.entity, stopId, now \div 1000)
                          ELSE << >>]
      [] op = "stops" ->
           [kind |-> "stops", msg |-> NullMsg, ts |-> 0, list |-> StopsAfterFeed(r)]

\* the handlers suspended inside loadFeed(), and those with a fetch in flight
InFlight == {d \in Calls : req[d].pc \in {"fetching", "writing"}}

Fetching == {d \in Calls : req[d].pc = "fetching"}

\* the response of handler h (a req record) whose loadFeed() call had outcome r
Response(h, r, ts) ==
    [ op |-> h.op, stopId |-> h.stopId, now |-> h.now, fid |-> h.fid,
      overlap |-> h.overlap, fresh |-> h.fresh,
      out |-> Respond(h.op, h.stopId, r, ts, clock) ]

\* stopsCache = ...; stopsCacheTs = now, when the handler h whose loadFeed() call
\* had outcome r is loadStops(); the other handlers do not touch the stops cache
StopsSettle(h, r) ==
    IF h.op = "stops"
    THEN /\ stopsCache' = StopsAfterFeed(r)
         /\ stopsCacheTs' = h.stopsNow
         /\ stopsCachedAt' = clock
    ELSE UNCHANGED << stopsCache, stopsCacheTs, stopsCachedAt >>

\* a handler op starts and runs the first segment of loadFeed() on the cache
\* (cache, ts) it left: return null, return the cached message, or start the
\* upstream fetch and suspend in the first free slot
Call(op, stopId, cache, ts) ==
    LET entry == LoadFeedEntry(cache, ts, clock)
        h == [IdleReq EXCEPT !.op = op, !.stopId = stopId, !.now = clock,
                             !.fresh = CacheFresh(feedCache, feedCacheTs, clock)]
    IN
    /\ feedCache' = cache
    /\ feedCacheTs' = ts
    /\ \/ /\ entry = "null"
          /\ resp' = Response(h, RetNull, ts)
          /\ UNCHANGED << req, fetchCount >>
       \/ /\ entry = "hit"
          /\ resp' = Response(h, RetMsg(cache), ts)
          /\ UNCHANGED << req, fetchCount >>
       \/ /\ entry = "miss"
          /\ fetchCount < MaxFetches
          /\ fetchCount' = fetchCount + 1
          /\ \E c \in Calls :
               /\ req[c].pc = "idle"
               /\ \A d \in Calls : d < c => req[d].pc # "idle"
               /\ req' = [req EXCEPT ![c] =
                            [h EXCEPT !.pc = "fetching", !.fid = fetchCount + 1,
                                      !.overlap = {req[d].fid : d \in InFlight}]]
          /\ UNCHANGED resp
    /\ UNCHANGED << urlConfigured, clock, ticks, feedCacheRaw, diskRaw, lastInstall,
                    stopsVars, pureVars >>

\* getFeed(): loadFeed() called on the cache as it is
GetFeed == Call("getFeed", "", feedCache, feedCacheTs)

\* mutant: the refresh handler does not invalidate the cache
NotInvalidated == [cache |-> feedCache, ts |-> feedCacheTs]

\* feedCache = null; feedCacheTs = 0  (POST /api/refresh, before loadFeed())
Invalidated == [cache |-> NullMsg, ts |-> 0]

\* POST /api/refresh: invalidate, then loadFeed()
Refresh == Call("refresh", "", Invalidated.cache, Invalidated.ts)

\* getNextArrivalsForStop(stopId)
Arrivals(stopId) == Call("arrivals", stopId, feedCache, feedCacheTs)

\* await fetch(url) rejects, or !res.ok: loadFeed() throws
FetchFail(c) ==
    /\ req[c].pc = "fetching"
    /\ resp' = Response(req[c], RetThrow, feedCacheTs)
    /\ StopsSettle(req[c], RetThrow)
    /\ req' = [req EXCEPT ![c] = IdleReq]
    /\ UNCHANGED << urlConfigured, clock, ticks, feedCache, feedCacheTs, feedCacheRaw,
                    diskRaw, fetchCount, lastInstall, table, pureVars >>

\* the response arrives with status ok and body bytes; the handler goes on to
\* persist the bytes (await fs.mkdir, await fs.writeFile)
FetchOk(c, bytes) ==
    /\ req[c].pc = "fetching"
    /\ req' = [req EXCEPT ![c] = [@ EXCEPT !.pc = "writing", !.buf = bytes]]
    /\ UNCHANGED << urlConfigured, clock, ticks, feedCache, feedCacheTs, feedCacheRaw,
                    diskRaw, fetchCount, resp, lastInstall, stopsVars, pureVars >>

\* mutant: the snapshot is stamped with the time the refresh completed
InstallTsAtCompletion(c) == clock

\* feedCacheTs = now: the clock reading taken when loadFeed() was entered
InstallTs(c) == req[c].now

\* mutant: a failed write makes loadFeed() throw
ThrowsOnWriteFailure(bytes, written) == DecodeThrows(bytes) \/ ~written

\* the last segment of loadFeed() throws: fs.mkdir and fs.writeFile carry
\* .catch(() => {}), so only FeedMessage.decode can
LastSegmentThrows(bytes, written) == DecodeThrows(bytes)

\* the write settles (written: the file was written; a failure is swallowed by
\* .catch(() => {})), then the last segment of loadFeed() runs: feedCacheRaw is
\* assigned, the bytes are decoded (which may throw), feedCache and feedCacheTs
\* are assigned
WriteSettle(c, written) ==
    LET raw == NewRaw(req[c].fid, req[c].buf) IN
    /\ req[c].pc = "writing"
    /\ diskRaw' = IF written THEN raw.bytes ELSE diskRaw
    /\ feedCacheRaw' = raw
    /\ IF LastSegmentThrows(raw.bytes, written)
       THEN /\ resp' = Response(req[c], RetThrow, feedCacheTs)
            /\ StopsSettle(req[c], RetThrow)
            /\ UNCHANGED << feedCache, feedCacheTs, lastInstall >>
       ELSE /\ feedCache' = Decode(raw)
            /\ feedCacheTs' = InstallTs(c)
            /\ lastInstall' = [msg |-> Decode(raw), ts |-> InstallTs(c)]
            /\ resp' = Response(req[c], RetMsg(Decode(raw)), InstallTs(c))
            /\ StopsSettle(req[c], RetMsg(Decode(raw)))
    /\ req' = [req EXCEPT ![c] = IdleReq]
    /\ UNCHANGED << urlConfigured, clock, ticks, fetchCount, table, pureVars >>

Next ==
    \/ Tick
    \/ GetFeed
    \/ Refresh
    \/ \E s \in StopIds : Arrivals(s)
    \/ \E c \in Calls : FetchFail(c)
    \/ \E c \in Calls : \E b \in Payloads : FetchOk(c, b)
    \/ \E c \in Calls : \E w \in BOOLEAN : WriteSettle(c, w)

Spec == Init /\ [][Next]_vars

(***************************************************************************)
(* loadStops (GET /api/stops).                                             *)
(***************************************************************************)
\* time passes until the clock next reads a whole number of days since the
\* start; no handler stays suspended that long (the HTTP client and the file
\* system time out long before)
TickDay ==
    /\ clock < StartClock + MaxDays * STOPS_TTL_MS
    /\ \A c \in Calls : req[c].pc = "idle"
    /\ clock' = StartClock + ((clock - StartClock) \div STOPS_TTL_MS + 1) * STOPS_TTL_MS
    /\ UNCHANGED << urlConfigured, ticks, feedCache, feedCacheTs, feedCacheRaw, diskRaw,
                    fetchCount, req, resp, lastInstall, stopsVars, pureVars >>

\* mutant: the stops cache never counts as fresh
StopsNeverFresh(cache, ts, now) == FALSE

\* if (stopsCache && now - stopsCacheTs < STOPS_TTL_MS) return stopsCache
StopsFresh(cache, ts, now) == cache # NoStops /\ now - ts < STOPS_TTL_MS

\* the response of the loadStops() handler h that returns list
StopsResponse(h, list) ==
    [ op |-> "stops", stopId |-> "", now |-> h.stopsNow, fid |-> h.fid,
      overlap |-> h.overlap, fresh |-> h.fresh,
      out |-> [kind |-> "stops", msg |-> NullMsg, ts |-> 0, list |-> list] ]

\* loadStops() starts: it returns the cached list, or starts reading the static
\* table and suspends in the first free slot
LoadStops ==
    LET h == [IdleReq EXCEPT !.op = "stops", !.stopsNow = clock,
                             !.fresh = StopsFresh(stopsCache, stopsCacheTs, clock)]
    IN
    /\ \/ /\ StopsFresh(stopsCache, stopsCacheTs, clock)
          /\ resp' = StopsResponse(h, stopsCache)
          /\ UNCHANGED req
       \/ /\ ~StopsFresh(stopsCache, stopsCacheTs, clock)
          /\ \E c \in Calls :
               /\ req[c].pc = "idle"
               /\ \A d \in Calls : d < c => req[d].pc # "idle"
               /\ req' = [req EXCEPT ![c] = [h EXCEPT !.pc = "reading"]]
          /\ UNCHANGED resp
    /\ UNCHANGED << urlConfigured, clock, ticks, feedCache, feedCacheTs, feedCacheRaw,
                    diskRaw, fetchCount, lastInstall, stopsVars, pureVars >>

\* mutant: tier 1 yields nothing
NoStaticStops(t) == << >>

\* tier 1 of the handler suspended in slot c
MappedStops(t) == StaticStops(t)

\* fs.readFile settles for the loadStops() handler of slot c.  Tier 1: when the
\* table yields platform rows they are cached and returned.  Otherwise the
\* handler calls loadFeed(), whose first segment returns null, returns the
\* cached message, or starts the upstream fetch; on null or a message the
\* handler caches and returns the list of tier 2 or 3.
ReadSettle(c) ==
    LET h      == [req[c] EXCEPT !.now = clock]
        mapped == MappedStops(table)
        entry  == LoadFeedEntry(feedCache, feedCacheTs, clock)
        list   == IF mapped # << >> THEN mapped
                  ELSE IF entry = "null" THEN StopsAfterFeed(RetNull)
                  ELSE StopsAfterFeed(RetMsg(feedCache))
    IN
    /\ req[c].pc = "reading"
    /\ \/ /\ mapped # << >> \/ entry # "miss"
          /\ stopsCache' = list
          /\ stopsCacheTs' = h.stopsNow
          /\ stopsCachedAt' = clock
          /\ resp' = StopsResponse(h, list)
          /\ req' = [req EXCEPT ![c] = IdleReq]
          /\ UNCHANGED fetchCount
       \/ /\ mapped = << >> /\ entry = "miss"
          /\ fetchCount < MaxFetches
          /\ fetchCount' = fetchCount + 1
          /\ req' = [req EXCEPT ![c] =
                       [h EXCEPT !.pc = "fetching", !.fid = fetchCount + 1,
                                 !.overlap = {req[d].fid : d \in InFlight}]]
          /\ UNCHANGED << resp, stopsCache, stopsCacheTs, stopsCachedAt >>
    /\ UNCHANGED << urlConfigured, clock, ticks, feedCache, feedCacheTs, feedCacheRaw,
                    diskRaw, lastInstall, table, pureVars >>

\* the static tables of the specifications: no file, a header that is not a
\* stops header, a table of stations only, and a table with one platform
StopTables ==
    { NoTable,
      Table("id,name", << << "s1", "Alinga Street", "", "", "", "0" >> >>),
      Table("stop_id,stop_name", << << "A", "Alinga Station", "", "", "", "1" >> >>),
      Table("STOP_ID,STOP_NAME", << << "s1", "Alinga Street", "", "", "", "0" >>,
                                    << "A", "Alinga Station", "", "", "", "1" >> >>) }

(***************************************************************************)
(* SpecStops: the cascade of loadStops and its callers' interleavings.     *)
(* The clock advances in whole days only.                                  *)
(***************************************************************************)
InitStops ==
    /\ urlConfigured \in BOOLEAN
    /\ ColdStart
    /\ web = NoWeb
    /\ table \in StopTables
    /\ rank = NoRank
    /\ parsed = NoParsed

NextStops ==
    \/ TickDay
    \/ LoadStops
    \/ \E c \in Calls : ReadSettle(c)
    \/ Refresh
    \/ \E c \in Calls : FetchFail(c)
    \/ \E c \in Calls : \E b \in Payloads : FetchOk(c, b)
    \/ \E c \in Calls : WriteSettle(c, TRUE)

SpecStops == InitStops /\ [][NextStops]_vars

(***************************************************************************)
(* SpecStopsTtl: the stops cache against the clock.  Time also passes      *)
(* while handlers are suspended; the table is missing or has a platform.   *)
(***************************************************************************)
InitStopsTtl ==
    /\ urlConfigured = TRUE
    /\ ColdStart
    /\ web = NoWeb
    /\ table \in {t \in StopTables : t = NoTable \/ StaticStops(t) # << >>}
    /\ rank = NoRank
    /\ parsed = NoParsed

NextStopsTtl ==
    \/ Tick
    \/ TickDay
    \/ LoadStops
    \/ \E c \in Calls : ReadSettle(c)
    \/ Refresh
    \/ \E c \in Calls : FetchFail(c)
    \/ \E c \in Calls : \E b \in Payloads : FetchOk(c, b)
    \/ \E c \in Calls : WriteSettle(c, TRUE)

SpecStopsTtl == InitStopsTtl /\ [][NextStopsTtl]_vars

(***************************************************************************)
(* SpecPure: getNextArrivalsForStop after loadFeed() returned a feed, and  *)
(* tier 1 of loadStops after fs.readFile settled, applied to inputs drawn  *)
(* from bounded sets.                                                      *)
(***************************************************************************)
\* stopTimeUpdates for the stop "S1" (spelled in either case) at clock 20 s:
\* 120 s and 45 s ahead, 10 s in the past, due now, and without arrival time
StuChoices ==
    { Stu("S1", TRUE, 140), Stu("s1", TRUE, 65), Stu("S1", TRUE, 10),
      Stu("S1", TRUE, 20), Stu("S1", FALSE, 0) }

Dirs == {0, 1, NoDir}

\* a trip of each direction with one of these, a trip with a stopTimeUpdate
\* without stop id and one for another stop, and a vehicle
EntityChoices ==
    { TripEntity(d, << u >>) : d \in Dirs, u \in StuChoices }
    \cup { TripEntity(0, << Stu("", TRUE, 22), Stu("X9", TRUE, 25), Stu("S1", TRUE, 30) >>),
           VehicleEntity }

RankFeeds == UNION { [1..k -> EntityChoices] : k \in 0..MaxEntities }

RankStopIds == {"S1", "s1", "X9"}

\* Date.now() of the queries, in milliseconds
RankNows == {20999}

RankInputs ==
    [ feed : RankFeeds, stopId : RankStopIds, nowMs : RankNows,
      done : {FALSE}, out : {<< >>} ]

\* header lines: none (the file has no non-empty line), not a stops header,
\* and a stops header in either case
HeaderChoices == {"", "id,name", "stop_id,stop_name", "STOP_ID,STOP_NAME"}

\* rows: a platform, a station, a row of 5 fields, a row with an empty
\* location_type, and a platform whose fields kept quote characters
RowChoices ==
    { << "s1", "Alinga Street", "", "", "", "0" >>,
      << "A", "Alinga Station", "", "", "", "1" >>,
      << "S1", "Short", "", "", "" >>,
      << "E", "Elouera Street", "", "", "", "" >>,
      << "\"s1", "Quoted", "", "", "", "\"0\"" >> }

ParseTables ==
    {NoTable}
    \cup { Table(h, rows) : h \in HeaderChoices \ {""},
                            rows \in UNION { [1..k -> RowChoices] : k \in 0..MaxRows } }
    \cup { Table("", << >>) }

ParseInputs == [ table : ParseTables, done : {FALSE}, out : {<< >>} ]

InitPure ==
    /\ urlConfigured = TRUE
    /\ ColdStart
    /\ web = NoWeb
    /\ table = NoTable
    /\ \/ rank \in RankInputs /\ parsed = NoParsed
       \/ rank \in {r \in RankInputs : Len(r.feed) <= 1} /\ parsed \in ParseInputs

\* lines 151-185 of getNextArrivalsForStop on the feed loadFeed() returned
RankArrivals ==
    /\ ~rank.done
    /\ rank' = [rank EXCEPT !.done = TRUE,
                            !.out = NextArrivals(rank.feed, rank.stopId, rank.nowMs \div 1000)]
    /\ UNCHANGED << urlConfigured, clock, ticks, feedCache, feedCacheTs, feedCacheRaw,
                    diskRaw, fetchCount, req, resp, lastInstall, stopsVars, parsed, web >>

\* lines 77-94 of loadStops on the table fs.readFile found
ReadStaticStops ==
    /\ ~parsed.done
    /\ parsed' = [parsed EXCEPT !.done = TRUE, !.out = MappedStops(parsed.table)]
    /\ UNCHANGED << urlConfigured, clock, ticks, feedCache, feedCacheTs, feedCacheRaw,
                    diskRaw, fetchCount, req, resp, lastInstall, stopsVars, rank, web >>

NextPure == RankArrivals \/ ReadStaticStops

SpecPure == InitPure /\ [][NextPure]_vars

(***************************************************************************)
(* SpecRaw: GET /api/feed.pb next to the feed cache and its callers.       *)
(***************************************************************************)
\* GET /api/feed.pb: the handler reads tmp/lightrail.pb; it answers 503 when
\* the read fails and sends the bytes of the file otherwise
FeedPb ==
    /\ resp' = [ op |-> "feedPb", stopId |-> "", now |-> clock, fid |-> 0,
                 overlap |-> {}, fresh |-> FALSE,
                 out |-> [ kind |-> IF diskRaw = NoFile THEN "unavailable" ELSE "raw",
                           msg |-> NullMsg, ts |-> 0, list |-> << >>,
                           bytes |-> diskRaw ] ]
    /\ UNCHANGED << urlConfigured, clock, ticks, feedCache, feedCacheTs, feedCacheRaw,
                    diskRaw, fetchCount, req, lastInstall, stopsVars, pureVars >>

InitRaw ==
    /\ urlConfigured = TRUE
    /\ ColdStart
    /\ web = NoWeb
    /\ table = NoTable
    /\ rank = NoRank
    /\ parsed = NoParsed

NextRaw ==
    \/ Tick
    \/ GetFeed
    \/ Refresh
    \/ FeedPb
    \/ \E c \in Calls : FetchFail(c)
    \/ \E c \in Calls : \E b \in Payloads : FetchOk(c, b)
    \/ \E c \in Calls : \E w \in BOOLEAN : WriteSettle(c, w)

SpecRaw == InitRaw /\ [][NextRaw]_vars

(***************************************************************************)
(* SpecWeb: the web client (web/src/App.tsx), its stop selection and its    *)
(* /api/departures requests.  The responses of different requests arrive   *)
(* in any order.                                                            *)
(***************************************************************************)
\* changes of the client state leave the server alone
WebOnly ==
    UNCHANGED << urlConfigured, clock, ticks, feedCache, feedCacheTs, feedCacheRaw,
                 diskRaw, fetchCount, req, resp, lastInstall, stopsVars, rank, parsed >>

\* fetchDeparturesFor(stopId), up to its await fetch(...): setError(null) and
\* n requests for stopId issued
Requested(w, stopId, n) ==
    [w EXCEPT !.pending[stopId] = @ + n, !.error = FALSE]

\* GET /api/stops answers: setStops(data); setSelectedStop(data[0].id); the
\* effect on selectedStop then calls fetchDeparturesFor(selectedStop)
WebStopsLoaded ==
    /\ web.selectedStop = ""
    /\ \E first \in WebStops :
         web' = Requested([web EXCEPT !.selectedStop = first, !.answered = FALSE], first, 1)
    /\ WebOnly

\* onChange of the select box: setSelectedStop(id); fetchDeparturesFor(id);
\* the effect on selectedStop then calls fetchDeparturesFor(selectedStop) again
WebSelect(id) ==
    /\ web.selectedStop # ""
    /\ id # web.selectedStop
    /\ web.pending[id] + 2 <= MaxPending
    /\ web' = Requested([web EXCEPT !.selectedStop = id, !.answered = FALSE], id, 2)
    /\ WebOnly

\* the 15 s interval, the focus listener or the Refresh button call
\* fetchDeparturesFor(selectedStop)
WebPoll ==
    /\ web.selectedStop # ""
    /\ web.pending[web.selectedStop] + 1 <= MaxPending
    /\ web' = Requested(web, web.selectedStop, 1)
    /\ WebOnly

\* a request for stop s is answered: setTargets(list)
WebDeparturesOk(s) ==
    /\ web.pending[s] > 0
    /\ web' = [web EXCEPT !.pending[s] = @ - 1,
                          !.targetsFor = s,
                          !.answered = @ \/ s = web.selectedStop]
    /\ WebOnly

\* a request for stop s fails: setError('Failed to load departures')
WebDeparturesFail(s) ==
    /\ web.pending[s] > 0
    /\ web' = [web EXCEPT !.pending[s] = @ - 1, !.error = TRUE]
    /\ WebOnly

InitWeb ==
    /\ urlConfigured = TRUE
    /\ ColdStart
    /\ web = NoWeb
    /\ table = NoTable
    /\ rank = NoRank
    /\ parsed = NoParsed

NextWeb ==
    \/ WebStopsLoaded
    \/ \E id \in WebStops : WebSelect(id)
    \/ WebPoll
    \/ \E s \in WebStops : WebDeparturesOk(s)
    \/ \E s \in WebStops : WebDeparturesFail(s)

SpecWeb == InitWeb /\ [][NextWeb]_vars

(***************************************************************************)
(* Steps of a handler, as seen from outside.                               *)
(***************************************************************************)
\* a handler op returns in this step
Responds(op) == resp' # resp /\ resp'.op = op

\* a handler op suspends in slot c with its upstream fetch issued, in this step
StartsFetch(c, op) == req[c].pc = "idle" /\ req'[c].pc = "fetching" /\ req'[c].op = op

C2_SingleFlight == Cardinality(Fetching) <= 1

(***************************************************************************)
(* C3                                                                      *)
(***************************************************************************)
\* C3: two getFeed() callers that overlap one refresh (one found the cache
\* expired while the fetch of the other was in flight) get the same outcome:
\* the same decoded object, or both a failure.
C3_SameOutcome ==
    [][( /\ Responds("getFeed")
         /\ resp.op = "getFeed"
         /\ resp.fid # 0 /\ resp'.fid # 0
         /\ ( resp.fid \in resp'.overlap \/ resp'.fid \in resp.overlap ) )
       => ( /\ resp'.out.kind = resp.out.kind
            /\ resp'.out.msg = resp.out.msg )]_vars

(***************************************************************************)
(* C4                                                                      *)
(***************************************************************************)
\* C4: the timestamp of installed snapshots never decreases: no refresh
\* installs a snapshot older than one installed before it.
C4_TsNeverDecreases ==
    [][( lastInstall' # lastInstall /\ lastInstall # NoInstall )
         => lastInstall'.ts >= lastInstall.ts]_vars

(***************************************************************************)
(* C5                                                                      *)
(***************************************************************************)
\* C5: in every state feedCache and feedCacheRaw come from the same fetch:
\* both are absent, or feedCache is the decoding of exactly feedCacheRaw.
C5_SameFetch ==
    \/ feedCache = NullMsg /\ feedCacheRaw = NullRaw
    \/ /\ feedCache # NullMsg
       /\ feedCacheRaw # NullRaw
       /\ ~DecodeThrows(feedCacheRaw.bytes)
       /\ feedCache = Decode(feedCacheRaw)

(***************************************************************************)
(* C6                                                                      *)
(***************************************************************************)
\* C6: when a refresh started by getFeed() fails (fetch failure or decode
\* failure), the snapshot is left unchanged in all three fields.
C6_FailedRefreshKeepsSnapshot ==
    [][( /\ Responds("getFeed")
         /\ resp'.fid # 0
         /\ resp'.out.kind = "error" )
       => UNCHANGED << feedCache, feedCacheRaw, feedCacheTs >>]_vars

(***************************************************************************)
(* C7                                                                      *)
(***************************************************************************)
\* C7: a getFeed() call whose refresh settles without installing a snapshot
\* returns the failure to its caller, and a getFeed() call that returns a
\* decoded message returns the cached one, whose age at the time the call
\* started is less than FEED_TTL.
C7_NoStaleFeed ==
    [][Responds("getFeed")
       => ( /\ ( resp'.fid # 0 /\ lastInstall' = lastInstall )
                  => ( resp'.out.kind = "error" /\ resp'.out.msg = NullMsg )
            /\ resp'.out.kind = "msg"
                  => ( /\ resp'.out.msg = feedCache'
                       /\ resp'.out.ts = feedCacheTs'
                       /\ resp'.now - resp'.out.ts < FEED_TTL_MS ) )]_vars

\* a getFeed() call that found the snapshot expired and whose refresh failed
C7_Witness ==
    /\ resp.op = "getFeed" /\ resp.fid # 0
    /\ resp.out.kind = "error"
    /\ feedCache # NullMsg
    /\ resp.now - feedCacheTs >= FEED_TTL_MS

(***************************************************************************)
(* C8                                                                      *)
(***************************************************************************)
\* C8: with an upstream URL configured, no forceRefresh() returns without
\* having fetched, whatever the age of the snapshot; it issues its upstream
\* fetch at once, and when the fetch and the decode succeed the decoding of
\* the fetched bytes replaces the snapshot.
C8_ForceRefreshFetches ==
    [][/\ ( urlConfigured /\ Responds("refresh") ) => resp'.fid # 0
       /\ \A c \in Calls :
            StartsFetch(c, "refresh")
            => ( fetchCount' = fetchCount + 1 /\ req'[c].fid = fetchCount' )
       /\ \A c \in Calls :
            ( /\ req[c].op = "refresh"
              /\ req[c].pc = "writing"
              /\ req'[c].pc = "idle"
              /\ resp'.out.kind = "ok" )
            => ( /\ feedCache' = [fid |-> req[c].fid, entity |-> FeedEntities(req[c].buf)]
                 /\ feedCacheRaw' = [fid |-> req[c].fid, bytes |-> req[c].buf]
                 /\ feedCacheTs' = req[c].now
                 /\ feedCache' # feedCache )]_vars

\* a forceRefresh() that started on a snapshot still within FEED_TTL and
\* replaced it
C8_Witness ==
    /\ resp.op = "refresh" /\ resp.fresh
    /\ resp.out.kind = "ok"
    /\ feedCache.fid = resp.fid
    /\ feedCacheTs = resp.now

(***************************************************************************)
(* C9                                                                      *)
(***************************************************************************)
\* C9: forceRefresh() invalidates the snapshot without clearing it: when it
\* starts, and hence while it is in flight and after it fails, the cached
\* decoded message and raw bytes stay the stored snapshot.
C9_NonDestructive ==
    [][\A c \in Calls :
         StartsFetch(c, "refresh")
         => ( feedCache' = feedCache /\ feedCacheRaw' = feedCacheRaw )]_vars

(***************************************************************************)
(* C10                                                                     *)
(***************************************************************************)
\* C10: when no upstream URL is configured no upstream fetch is ever issued,
\* no handler is ever suspended in a refresh, every getFeed() returns null
\* (not a failure) and every nextArrivals(stopId) returns the empty sequence.
C10_NotConfigured ==
    ~urlConfigured =>
        /\ fetchCount = 0
        /\ \A c \in Calls : req[c].pc = "idle"
        /\ resp.op = "getFeed" => resp.out.kind = "null"
        /\ resp.op = "arrivals" => ( resp.out.kind = "list" /\ resp.out.list = << >> )

\* without a URL, a nextArrivals() call (which calls getFeed()) has returned
C10_Witness ==
    /\ ~urlConfigured
    /\ resp.op = "arrivals" /\ resp.stopId = "s1"
    /\ resp.out.kind = "list"

SameStop(a, b) == a = b \/ {a, b} = {"S1", "s1"} \/ {a, b} = {"X9", "x9"}

\* the other spelling of a stop id
OtherCase(a) ==
    CASE a = "S1" -> "s1"
      [] a = "s1" -> "S1"
      [] a = "X9" -> "x9"
      [] a = "x9" -> "X9"
      [] OTHER -> a

\* the clock reading of the query q, in whole seconds
NowOf(q) == q.nowMs \div 1000

\* the stopTimeUpdates of the feed of q for its stop, in trips of direction d
StusFor(q, d) ==
    UNION { { q.feed[i].stus[j] :
                j \in {k \in DOMAIN q.feed[i].stus :
                         /\ q.feed[i].stus[k].stopId # ""
                         /\ SameStop(q.feed[i].stus[k].stopId, q.stopId)} } :
            i \in {k \in DOMAIN q.feed : q.feed[k].hasTU /\ q.feed[k].dir = d} }

\* the arrival times among them that are not in the past
Qualifying(q, d) == { u.time : u \in {v \in StusFor(q, d) : v.hasArrival /\ v.time >= NowOf(q)} }

Min(S) == CHOOSE x \in S : \A y \in S : x <= y

\* the direction buckets with a qualifying arrival
Buckets(q) == {d \in Dirs : Qualifying(q, d) # {}}

\* the bucket an Arrival stands for
DirOf(a) == IF a.directionId = Undefined THEN NoDir ELSE a.directionId

(***************************************************************************)
(* C12                                                                     *)
(***************************************************************************)
\* C12: nextArrivals returns at most 2 entries, sorted by non-decreasing
\* secondsAway: as many as there are direction buckets with a candidate, up to
\* 2, and no candidate left out is nearer than one returned.
C12_TwoNearest ==
    rank.done =>
        /\ Len(rank.out) <= 2
        /\ \A i, j \in DOMAIN rank.out : i < j => rank.out[i].secondsAway <= rank.out[j].secondsAway
        /\ Len(rank.out) = IF Cardinality(Buckets(rank)) < 2 THEN Cardinality(Buckets(rank)) ELSE 2
        /\ \A i \in DOMAIN rank.out :
             \A d \in Buckets(rank) \ {DirOf(rank.out[k]) : k \in DOMAIN rank.out} :
                rank.out[i].secondsAway <= Min(Qualifying(rank, d)) - NowOf(rank)

\* three buckets have a candidate at different distances; two are returned
C12_Witness ==
    /\ rank.done
    /\ Buckets(rank) = Dirs
    /\ Cardinality({Min(Qualifying(rank, d)) : d \in Dirs}) = 3
    /\ Len(rank.out) = 2
    /\ rank.out[1].secondsAway < rank.out[2].secondsAway

(***************************************************************************)
(* C13                                                                     *)
(***************************************************************************)
\* C13: every entry nextArrivals returns has secondsAway >= 0 and
\* secondsAway = epochSeconds - now, now being the one clock reading of the
\* query in whole seconds.
C13_SecondsAway ==
    rank.done =>
        \A i \in DOMAIN rank.out :
            /\ rank.out[i].secondsAway >= 0
            /\ rank.out[i].secondsAway = rank.out[i].epochSeconds - NowOf(rank)

\* the feed holds a past arrival for the stop, and arrivals are returned
C13_Witness ==
    /\ rank.done
    /\ \E d \in Dirs : \E u \in StusFor(rank, d) : u.hasArrival /\ u.time < NowOf(rank)
    /\ Len(rank.out) = 2
    /\ rank.out[1].secondsAway = 0
    /\ rank.out[2].secondsAway > 0

(***************************************************************************)
(* C14                                                                     *)
(***************************************************************************)
\* C14: nextArrivals returns at most one Arrival per direction bucket (0, 1,
\* unknown); the epochSeconds of each is the minimum qualifying arrival time
\* of its bucket over all trips of that direction; directionId is 0 or 1, or
\* absent for the unknown bucket.
C14_EarliestPerDirection ==
    rank.done =>
        /\ \A i, j \in DOMAIN rank.out : i # j => DirOf(rank.out[i]) # DirOf(rank.out[j])
        /\ \A i \in DOMAIN rank.out :
             /\ rank.out[i].directionId \in {0, 1, Undefined}
             /\ DirOf(rank.out[i]) \in Buckets(rank)
             /\ rank.out[i].epochSeconds = Min(Qualifying(rank, DirOf(rank.out[i])))

\* direction 0 in 120 s and direction 1 in 45 s: [{45, dir 1}, {120, dir 0}]
C14_Witness ==
    /\ rank.done
    /\ rank.feed = << TripEntity(0, << Stu("S1", TRUE, 140) >>),
                      TripEntity(1, << Stu("s1", TRUE, 65) >>) >>
    /\ rank.stopId = "S1"
    /\ NowOf(rank) = 20
    /\ rank.out = << [epochSeconds |-> 65, secondsAway |-> 45, source |-> "realtime",
                      directionId |-> 1],
                     [epochSeconds |-> 140, secondsAway |-> 120, source |-> "realtime",
                      directionId |-> 0] >>

(***************************************************************************)
(* C15                                                                     *)
(***************************************************************************)
\* C15: nextArrivals skips every StopTimeUpdate without arrival time or with
\* an arrival time strictly before now, and keeps one due exactly now
\* (secondsAway 0): nothing is returned when no StopTimeUpdate for the stop
\* has an arrival time >= now, and an arrival due now comes back first.
C15_SkipsPast ==
    rank.done =>
        /\ \A i \in DOMAIN rank.out :
             \E u \in StusFor(rank, DirOf(rank.out[i])) :
                u.hasArrival /\ u.time >= NowOf(rank) /\ u.time = rank.out[i].epochSeconds
        /\ Buckets(rank) = {} => rank.out = << >>
        /\ ( \E d \in Dirs : NowOf(rank) \in Qualifying(rank, d) )
              => ( rank.out # << >> /\ rank.out[1].secondsAway = 0 )

\* the only StopTimeUpdate for the stop arrived 10 s in the past: []
C15_Witness ==
    /\ rank.done
    /\ rank.feed = << TripEntity(0, << Stu("S1", TRUE, 10) >>) >>
    /\ rank.stopId = "S1"
    /\ NowOf(rank) = 20
    /\ rank.out = << >>

(***************************************************************************)
(* C16                                                                     *)
(***************************************************************************)
\* C16: stop ids are matched exactly up to letter case: the other spelling of
\* the queried stop id gets the same result on the same feed and clock, and
\* every arrival returned belongs to a StopTimeUpdate of the queried stop;
\* the stop ids read from the static table are the id column of its rows,
\* in the rows' own casing.
C16_CaseInsensitive ==
    /\ rank.done =>
         /\ rank.out = NextArrivals(rank.feed, OtherCase(rank.stopId), NowOf(rank))
         /\ \A i \in DOMAIN rank.out :
              \E u \in StusFor(rank, DirOf(rank.out[i])) : u.time = rank.out[i].epochSeconds
    /\ parsed.done =>
         \A i \in DOMAIN parsed.out :
            \E j \in DOMAIN parsed.table.rows :
               parsed.out[i].id \in {parsed.table.rows[j][1], StripQuotes(parsed.table.rows[j][1])}

\* the query "s1" gets the arrival the feed lists under "S1", and the static
\* table's stop "s1" is returned as "s1"
C16_Witness ==
    /\ parsed.done
    /\ parsed.table.header = "STOP_ID,STOP_NAME"
    /\ parsed.out = << [id |-> "s1", name |-> "Alinga Street"] >>
    /\ rank.done
    /\ rank.stopId = "s1"
    /\ rank.feed = << TripEntity(0, << Stu("S1", TRUE, 140) >>) >>
    /\ Len(rank.out) = 1
    /\ rank.out[1].epochSeconds = 140

(***************************************************************************)
(* C17                                                                     *)
(***************************************************************************)
\* C17: resolveStops() never fails and always returns a non-empty list,
\* whatever the static table (missing, malformed, without platform rows,
\* valid) and the feed (not configured, fetch failure, decode failure, no stop
\* ids); without upstream URL and without platform rows in the table it
\* returns exactly the fallback list.
C17_NeverEmpty ==
    /\ resp.op = "stops" =>
         /\ resp.out.kind = "stops"
         /\ resp.out.list # << >>
         /\ ( ~urlConfigured /\ ~( \E i \in DOMAIN table.rows : table.rows[i][6] = "0" ) )
               => resp.out.list = fallbackStops
    /\ \A c \in Calls : req[c].op = "stops" => req[c].pc \in {"reading", "fetching", "writing"}

\* no URL and a table whose header is not a stops header: the fallback list
C17_Witness ==
    /\ ~urlConfigured
    /\ table.exists /\ table.header = "id,name"
    /\ resp.op = "stops"
    /\ resp.out.list = fallbackStops
    /\ stopsCache = fallbackStops

(***************************************************************************)
(* C18                                                                     *)
(***************************************************************************)
\* C18: when the static table yields at least one platform row, a resolution
\* returns (and caches) the static-table list, also when the live feed is
\* available, and the feed tier is not attempted: no loadFeed() call, no
\* upstream fetch.  A resolution is inside loadFeed() only when the table
\* yielded no row.
C18_StaticFirst ==
    [][/\ \A c \in Calls :
            ( /\ req[c].op = "stops" /\ req[c].pc = "reading"
              /\ req'[c] # req[c]
              /\ StaticStops(table) # << >> )
            => ( /\ req'[c] = IdleReq
                 /\ resp'.op = "stops"
                 /\ resp'.out.list = StaticStops(table)
                 /\ stopsCache' = StaticStops(table)
                 /\ fetchCount' = fetchCount
                 /\ UNCHANGED << feedCache, feedCacheTs, feedCacheRaw >> )
       /\ \A c \in Calls :
            ( req'[c].op = "stops" /\ req'[c].pc \in {"fetching", "writing"} )
            => StaticStops(table) = << >>]_vars

\* the feed is cached, fresh and lists stop ids; the resolution returned the
\* platform of the static table
C18_Witness ==
    /\ feedCache # NullMsg
    /\ clock - feedCacheTs < FEED_TTL_MS
    /\ FromFeed(feedCache.entity) # << >>
    /\ resp.op = "stops" /\ ~resp.fresh /\ resp.fid = 0
    /\ resp.out.list = << [id |-> "s1", name |-> "Alinga Street"] >>
    /\ stopsCache = resp.out.list

(***************************************************************************)
(* C19                                                                     *)
(***************************************************************************)
\* C19 as stated: in every state less than 24 hours after the stop list was
\* cached, a resolveStops() call returns the cached list (the cache is fresh).
C19_WithinDayOfCaching ==
    ( stopsCache # NoStops /\ clock - stopsCachedAt < STOPS_TTL_MS )
    => StopsFresh(stopsCache, stopsCacheTs, clock)

\* C19 amended: a resolveStops() call issued less than 24 hours after the
\* timestamp stored with the cached list returns that list without reading
\* the static table and without calling getFeed(), whichever tier produced
\* it; steps of the feed handlers and of the clock never write the stops
\* cache.
C19_FreshStopsHit ==
    [][/\ ( stopsCache # NoStops /\ clock - stopsCacheTs < STOPS_TTL_MS )
          => ( /\ \A c \in Calls : ~( req[c].pc = "idle" /\ req'[c].pc = "reading" )
               /\ ( Responds("stops") /\ req' = req )
                     => ( /\ resp'.out.list = stopsCache
                          /\ fetchCount' = fetchCount
                          /\ UNCHANGED << stopsCache, stopsCacheTs, feedCache, feedCacheTs >> ) )
       /\ ( /\ ~Responds("stops")
            /\ \A c \in Calls : ( req[c].op = "stops" \/ req'[c].op = "stops" ) => req'[c] = req[c] )
          => UNCHANGED << stopsCache, stopsCacheTs >>]_vars

\* a call answered from the stops cache after a forceRefresh() failed and left
\* the feed cache empty
C19_Witness ==
    /\ resp.op = "stops" /\ resp.fresh /\ resp.fid = 0
    /\ resp.out.list = stopsCache
    /\ resp.now > stopsCacheTs
    /\ feedCache = NullMsg /\ fetchCount > 0
    /\ \A c \in Calls : req[c].pc = "idle"

(***************************************************************************)
(* C20                                                                     *)
(***************************************************************************)
\* C20: stop resolution is single-flight: at every instant at most one
\* resolveStops() cascade is running.
C20_StopsSingleFlight == Cardinality({c \in Calls : req[c].op = "stops"}) <= 1

(***************************************************************************)
(* C21                                                                     *)
(***************************************************************************)
\* a getFeed() call that starts an upstream fetch
GetFeedFetches == GetFeed /\ fetchCount' = fetchCount + 1

\* C21: after a refresh has settled, by success or by failure, the feed cache
\* is not blocked: a getFeed() call that finds the snapshot absent or expired
\* starts a fresh upstream fetch (as far as the fetch bound and the free
\* slots of the model allow), and when the fetch and the decode of a
\* getFeed() call succeed, the call returns the newly decoded message.
C21_NotBlocked ==
    /\ []( ( /\ urlConfigured
             /\ fetchCount > Cardinality(InFlight)
             /\ feedCache = NullMsg \/ clock - feedCacheTs >= FEED_TTL_MS
             /\ fetchCount < MaxFetches
             /\ \E c \in Calls : req[c].pc = "idle" )
           => ENABLED GetFeedFetches )
    /\ [][\A c \in Calls :
            ( /\ req[c].op = "getFeed" /\ req[c].pc = "writing"
              /\ req'[c] # req[c]
              /\ req[c].buf # BadPayload )
            => ( /\ resp'.op = "getFeed" /\ resp'.fid = req[c].fid
                 /\ resp'.out.kind = "msg"
                 /\ resp'.out.msg = [fid |-> req[c].fid, entity |-> FeedEntities(req[c].buf)]
                 /\ feedCache' = resp'.out.msg )]_vars

\* the first fetch failed; a getFeed() call made at once afterwards fetched
\* again and returned the message it decoded
C21_Witness ==
    /\ resp.op = "getFeed" /\ resp.fid = 2 /\ resp.overlap = {}
    /\ ticks = 0
    /\ resp.out.kind = "msg" /\ resp.out.msg.fid = 2
    /\ feedCache = resp.out.msg

(***************************************************************************)
(* C22                                                                     *)
(***************************************************************************)
\* the stop ids referenced by the stopTimeUpdates of the TripUpdate entities
ReferencedIds(entity) ==
    { id \in {"S1", "X9", "s1"} :
        \E i \in DOMAIN entity :
            /\ entity[i].hasTU
            /\ \E j \in DOMAIN entity[i].stus : entity[i].stus[j].stopId = id }

\* position of a stop id in lexicographic order of its characters' codes
\* ("S" = 83, "X" = 88, "s" = 115)
FirstCode(id) == CASE id = "S1" -> 83 [] id = "X9" -> 88 [] id = "s1" -> 115

\* list holds exactly the ids, each once, ascending, each as {id, name: id}
IsIdList(list, ids) ==
    /\ Len(list) = Cardinality(ids)
    /\ {list[i].id : i \in DOMAIN list} = ids
    /\ \A i \in DOMAIN list : list[i].name = list[i].id
    /\ \A i, j \in DOMAIN list : i < j => FirstCode(list[i].id) < FirstCode(list[j].id)

\* C22: when the static tier yields zero rows and getFeed() returns a feed
\* with at least one stop id, resolveStops() returns exactly the distinct
\* referenced stop ids, each once, ascending, as {id, name: id}; a fetch or
\* decode failure in this tier is caught: the call still returns a list.
C22_FeedTier ==
    [][\A c \in Calls :
         ( /\ req[c].op = "stops"
           /\ req'[c] = IdleReq
           /\ StaticStops(table) = << >> )
         => /\ resp'.op = "stops"
            /\ resp'.out.kind = "stops"
            /\ ( /\ req[c].pc = "reading"
                 /\ urlConfigured
                 /\ ReferencedIds(feedCache.entity) # {} )
               => IsIdList(resp'.out.list, ReferencedIds(feedCache.entity))
            /\ ( /\ req[c].pc = "writing"
                 /\ req[c].buf # BadPayload
                 /\ ReferencedIds(FeedEntities(req[c].buf)) # {} )
               => IsIdList(resp'.out.list, ReferencedIds(FeedEntities(req[c].buf)))
            /\ ( req[c].pc = "fetching" \/ (req[c].pc = "writing" /\ req[c].buf = BadPayload) )
               => resp'.out.list = fallbackStops]_vars

\* a table of stations only; the resolution fetched the feed and returned its
\* three stop ids
C22_Witness ==
    /\ table.exists /\ StaticStops(table) = << >>
    /\ resp.op = "stops" /\ resp.fid > 0
    /\ resp.out.list = << [id |-> "S1", name |-> "S1"], [id |-> "X9", name |-> "X9"],
                          [id |-> "s1", name |-> "s1"] >>
    /\ stopsCache = resp.out.list

(***************************************************************************)
(* C23                                                                     *)
(***************************************************************************)
\* a resolution that ran the cascade (slot c goes idle) returns the fallback
\* list only if the table yields no platform row and its own getFeed() call
\* returned null, failed, or returned a feed without stop ids
CascadeFallback ==
    \A c \in Calls :
      ( /\ req[c].op = "stops"
        /\ req'[c] = IdleReq
        /\ resp'.out.list = fallbackStops )
      => /\ StaticStops(table) = << >>
         /\ \/ req[c].pc = "fetching"
            \/ req[c].pc = "writing" /\ req[c].buf = BadPayload
            \/ req[c].pc = "writing" /\ ReferencedIds(FeedEntities(req[c].buf)) = {}
            \/ req[c].pc = "reading" /\ ~urlConfigured
            \/ req[c].pc = "reading" /\ ReferencedIds(feedCache.entity) = {}

\* the call is answered from the stops cache
StopsCacheHit == Responds("stops") /\ req' = req

\* getFeed() would return a feed with stop ids now
FeedHasStopIds ==
    /\ urlConfigured
    /\ feedCache # NullMsg
    /\ clock - feedCacheTs < FEED_TTL_MS
    /\ ReferencedIds(feedCache.entity) # {}

\* C23 as stated: whenever a call returns the fallback list, the static table
\* yields zero platform rows and the live feed yields zero stop ids at the
\* time of that call, also for a call answered from the stops cache.
C23_FallbackOnlyWhenNothing ==
    [][/\ CascadeFallback
       /\ ( StopsCacheHit /\ resp'.out.list = fallbackStops )
          => ( StaticStops(table) = << >> /\ ~FeedHasStopIds )]_vars

\* C23 amended: a resolution that runs the cascade returns the fallback list
\* only when the static table yields zero platform rows and its getFeed()
\* call yields zero stop ids; a call answered from the stops cache returns
\* the cached list, the fallback list included, whatever the feed yields by
\* then.
C23_CascadeFallbackOnlyWhenNothing ==
    [][/\ CascadeFallback
       /\ StopsCacheHit => resp'.out.list = stopsCache]_vars

\* the upstream answered with bytes that do not decode: the resolution
\* returned the fallback list
C23_Witness ==
    /\ urlConfigured
    /\ resp.op = "stops" /\ resp.fid > 0
    /\ feedCacheRaw.fid = resp.fid /\ feedCacheRaw.bytes = BadPayload
    /\ resp.out.list = fallbackStops
    /\ stopsCache = fallbackStops

(***************************************************************************)
(* C24                                                                     *)
(***************************************************************************)
\* C24: once a list and its timestamp are stored in the stops cache, neither
\* changes until a resolution that started after the 24-hour TTL of the
\* stored entry expired replaces them (the timestamp written is the start of
\* the writing resolution).
C24_ImmutableBetweenRefreshes ==
    [][( /\ stopsCache # NoStops
         /\ << stopsCache, stopsCacheTs >>' # << stopsCache, stopsCacheTs >> )
       => stopsCacheTs' - stopsCacheTs >= STOPS_TTL_MS]_vars

(***************************************************************************)
(* C25                                                                     *)
(***************************************************************************)
\* C25: on a feed none of whose entities carries a TripUpdate (vehicles only,
\* or no entity at all) nextArrivals returns the empty sequence for every
\* stop id, and every Arrival returned has source "realtime".
C25_NoTripUpdatesNoArrivals ==
    rank.done =>
      /\ ( \A i \in DOMAIN rank.feed : ~rank.feed[i].hasTU ) => rank.out = << >>
      /\ \A i \in DOMAIN rank.out : rank.out[i].source = "realtime"

\* a feed of two vehicle positions, asked for the stop S1
C25_Witness ==
    /\ rank.done
    /\ rank.feed = << VehicleEntity, VehicleEntity >>
    /\ rank.stopId = "S1"
    /\ rank.out = << >>

(***************************************************************************)
(* C26                                                                     *)
(***************************************************************************)
\* C26: the outcome of a refresh is a function of the fetch response alone,
\* the same whether the persistence of the raw payload succeeded or failed:
\* bytes that decode are installed (message, raw bytes, timestamp of the
\* call's start) and returned; bytes that do not decode make the call fail
\* and leave the decoded message and its timestamp as they were.
C26_PersistenceIrrelevant ==
    [][\A c \in Calls :
         ( req[c].pc = "writing" /\ req'[c] # req[c] )
         => /\ req'[c] = IdleReq
            /\ resp'.op = req[c].op /\ resp'.fid = req[c].fid
            /\ feedCacheRaw' = [fid |-> req[c].fid, bytes |-> req[c].buf]
            /\ IF req[c].buf = BadPayload
               THEN /\ UNCHANGED << feedCache, feedCacheTs >>
                    /\ req[c].op = "getFeed" => resp'.out.kind = "error"
               ELSE /\ feedCache' = [fid |-> req[c].fid, entity |-> FeedEntities(req[c].buf)]
                    /\ feedCacheTs' = req[c].now
                    /\ req[c].op = "getFeed"
                         => ( resp'.out.kind = "msg" /\ resp'.out.msg = feedCache' )]_vars

\* no write ever succeeded, and a getFeed() call installed and returned the
\* message it fetched
C26_Witness ==
    /\ diskRaw = NoFile
    /\ resp.op = "getFeed" /\ resp.fid > 0
    /\ resp.out.kind = "msg"
    /\ feedCache = resp.out.msg /\ feedCache.fid = resp.fid
    /\ feedCacheRaw.fid = resp.fid

(***************************************************************************)
(* C27                                                                     *)
(***************************************************************************)
\* the location_type (column 5) of a row of six fields is not zero; an empty
\* location_type is zero (a stop or platform)
NonZeroLocationType(r) == r[6] \notin {"", "0", "\"0\""}

\* the rows of six fields of a table with a stops header that do not have a
\* non-zero location_type, as {id: column 0, name: column 1}, in file order
PlatformStops(t) ==
    IF ~t.exists \/ t.header \notin {"stop_id,stop_name", "STOP_ID,STOP_NAME"}
    THEN << >>
    ELSE LET kept == SelectSeq(t.rows, LAMBDA r : Len(r) >= 6 /\ ~NonZeroLocationType(r))
         IN  [i \in DOMAIN kept |-> [id |-> StripQuotes(kept[i][1]),
                                     name |-> StripQuotes(kept[i][2])]]

\* C27: the static tier yields exactly the rows of a table with a stops header
\* that are platform rows: it excludes exactly the rows with a non-zero
\* location_type, and maps each kept row to {id: column 0, name: column 1} in
\* file order; a missing or malformed source yields zero rows.
C27_ExactlyPlatformRows == parsed.done => parsed.out = PlatformStops(parsed.table)

(***************************************************************************)
(* C28                                                                     *)
(***************************************************************************)
\* C28: the timestamp stored with a snapshot is the clock reading the
\* refreshing call took when it started, before the fetch was awaited: a
\* handler's reading is taken in the step that issues its fetch, and the
\* install stores that reading together with the message of that fetch.
\* Hence feedCacheTs <= clock in every state, the cached message and the
\* timestamp always come from the same install, and a cache hit serves the
\* cached message less than FEED_TTL after the start of its fetch.
C28_TsIsCallStart ==
    /\ []( /\ feedCacheTs <= clock
           /\ feedCache # NullMsg => lastInstall = [msg |-> feedCache, ts |-> feedCacheTs] )
    /\ [][/\ \A c \in Calls :
               ( req[c].pc # "fetching" /\ req'[c].pc = "fetching" ) => req'[c].now = clock
          /\ \A c \in Calls :
               ( req[c].pc = "writing" /\ req'[c] # req[c] /\ req[c].buf # BadPayload )
               => ( feedCacheTs' = req[c].now /\ feedCache'.fid = req[c].fid )
          /\ ( resp' # resp /\ resp'.out.kind = "msg" /\ resp'.fid = 0 )
               => ( resp'.out.msg = feedCache /\ clock - feedCacheTs < FEED_TTL_MS )]_vars

\* a fetch started at the initial clock reading and completed one tick later:
\* the snapshot carries the initial reading, and a later call is served from it
C28_Witness ==
    /\ feedCache # NullMsg
    /\ feedCacheTs = StartClock
    /\ clock = StartClock + TickMs
    /\ resp.op = "getFeed" /\ resp.fid = 0 /\ resp.now = clock
    /\ resp.out.kind = "msg" /\ resp.out.msg = feedCache

(***************************************************************************)
(* C29                                                                     *)
(***************************************************************************)
\* C29: GET /api/feed.pb reports unavailable exactly when no snapshot has ever
\* been installed, and otherwise returns the payload of the most recent
\* successful refresh.
C29_RawOfSnapshot ==
    [][Responds("feedPb") =>
         /\ resp'.out.kind = "unavailable" <=> lastInstall = NoInstall
         /\ resp'.out.kind = "raw" =>
              /\ resp'.out.bytes # BadPayload
              /\ FeedEntities(resp'.out.bytes) = lastInstall.msg.entity]_vars

(***************************************************************************)
(* C30                                                                     *)
(***************************************************************************)
\* C30: in the web client, once all departure requests have settled and a
\* response for the selected stop has arrived, the displayed arrivals are
\* those returned for the selected stop.
C30_TargetsOfSelectedStop ==
    ( /\ web.selectedStop # ""
      /\ web.answered
      /\ \A s \in WebStops : web.pending[s] = 0 )
    => web.targetsFor = web.selectedStop

====
